---- MODULE Spec2Model ----
(***************************************************************************)
(* Model of opencti-graphql/src/utils/eventloop-utils.ts: the cooperative  *)
(* yield helper doYield and its module-level deadline nextYield, called by *)
(* logical tasks (loops that await doYield) on one JavaScript event loop.  *)
(*                                                                         *)
(* A step of the model is one synchronous segment of a task: JavaScript    *)
(* runs a segment to completion, so the code of doYield from its entry to  *)
(* its `await` (or to its `return false`) is one action, and the code      *)
(* after the `await` (the `return true`) is another.  Every step carries   *)
(* the time d that elapsed on the wall clock since the previous step.      *)
(*                                                                         *)
(* Second part: opencti-front/tests_e2e, the route validation suite: the   *)
(* page model RouteValidatorPageModel (validateRoute, validateRoutes, the  *)
(* page event handlers that record errors), the route catalogue of         *)
(* routeConfigs.ts and the "Zero Tolerance" test of routeValidation.spec.ts.*)
(* A step is again one synchronous segment: the completion of an awaited   *)
(* page operation together with the code that follows it up to the next    *)
(* await; page event handlers run between such segments.  The two parts    *)
(* share no state: each specification moves the variables of one part.     *)
(*                                                                         *)
(* Third part: opencti-front PirThreatMap.tsx: the grouping of the nodes   *)
(* of the threat map into the points of the scatter chart.  A render is    *)
(* synchronous; it is split here into the turns of nodes.forEach and the   *)
(* computation of the series, and the filter changes between renders.      *)
(***************************************************************************)
EXTENDS Integers, Sequences, FiniteSets, TLC

\* ---------------------------------------------------------------- constants

\* eventloop-utils.ts:1
MAX_EVENT_LOOP_PROCESSING_TIME == 50

\* the value `undefined` of nextYield (eventloop-utils.ts:3); timestamps are >= 0
Undefined == -1

\* ------------------------------------------------------------------- bounds

\* number of logical tasks (loops) calling doYield on the one event loop
NumTasks == 2
\* the clock value at process start ranges over 0..MaxStart
MaxStart == 2
\* a short time between two consecutive steps is 0..MaxTick
MaxTick == 2
\* Spec stops the clock here
MaxTime == 60
\* SpecSeq (one caller, strictly increasing timestamps): largest gap, horizon
SeqMaxTick == 100
SeqMaxTime == 155
\* SpecLoop (one loop, consecutive calls at most MaxGap apart): D, horizon
MaxGap == 3
LoopMaxTime == 120
\* validateRoute calls made on one validator
MaxCalls == 2
\* errors the page handlers record while one call's arrays are in use
MaxRecorded == 2
\* length of the route lists given to the test and to validateRoutes
MaxRoutes == 2
\* number of nodes given to PirThreatMap
MaxNodes == 3

Tasks == 1..NumTasks

\* the time that elapses between two consecutive steps under Spec: a short
\* time, or just over the processing budget
Ticks == (0..MaxTick) \cup {MAX_EVENT_LOOP_PROCESSING_TIME + 1}

\* -------------------------------------------------------------------- state

VARIABLES
  now,          \* the wall clock: the value Date.now() returns
  nextYield,    \* the module variable nextYield: Undefined or a timestamp
  timers,       \* pending setTimeout(resolve, 0) continuations, in order
  pc,           \* per task, its latest doYield call: "idle" (none made yet),
                \*   "awaiting" (suspended at the await), "done" (returned)
  ret,          \* per task, what its latest call returned: "none" while it
                \*   has not returned, else "true" or "false"
  branch,       \* per task, the branch its latest call took:
                \*   "none", "arm", "within" or "expired"
  yields,       \* per task, how many times its latest call ceded control
  interleaved,  \* per task, whether a step of another task ran between the
                \*   start of its latest call and that call's return
  lastCall,     \* [task, seq]: the task that made the latest call, and the
                \*   parity of the number of calls made so far
  lastStep,     \* the kind of the latest step: "init", "call" or "resume"
  armedAt,      \* the time read by the call that set the current deadline
  windowYields, \* number of suspensions caused by the latest arming
  armedBy,      \* the task whose call set the current deadline (0: unset)
  lastExpiry,   \* the latest suspension, until that call returns: [task]
                \*   that suspended, [armer] of the deadline it found
                \*   passed, and whether that call was the first call
                \*   [fresh] the task ever made
  firstCall,    \* the time read by the first call ever made
  trueCount,    \* number of calls that have returned true
  runStart      \* observed by the loop of SpecLoop: when its current
                \*   uninterrupted run began (its start or latest resumption)

\* RouteValidatorPageModel and the code that drives it
VARIABLES
  vpc,           \* where validateRoute is: "idle", the operation it awaits,
                 \*   or "returned" when its result is ready for the caller
  currentRoute,  \* this.currentRoute, the config of the latest call
  networkErrors, \* this.networkErrors
  jsErrors,      \* this.jsErrors
  caught,        \* in the catch block: the detailedError computed
  result,        \* the RouteValidationResult returned by the latest call
  calls,         \* number of validateRoute calls started
  heardNetwork,  \* what the handlers recorded since the latest call started:
  heardJs,       \*   network errors, JS errors (kept apart from the arrays)
  navStatus,     \* status of the navigation response of the latest call
  swallowed,     \* history: waits of the latest call that timed out
  checked,       \* the checks of the latest call that ran and passed, in order
  hpc,           \* where the driving code (test or validateRoutes) is
  routes,        \* the list the driving code iterates over
  position,      \* index in routes of the route the loop is at
  results,       \* validateRoutes: the results array
  visited,       \* indices of the routes passed to validateRoute, in order
  nodes,         \* PirThreatMap: the nodes of the fragment
  filteredEntityTypes,  \* the state of useState, line 72
  groupedData,   \* the groups built so far, line 74
  cursor,        \* how many nodes forEach has gone through
  series,        \* the chart series, line 101
  rpc            \* where the render is: "forEach", "rendered" ("off": none)

yieldVars == <<now, nextYield, timers, pc, ret, branch, yields, interleaved,
               lastCall, lastStep, armedAt, windowYields, armedBy, lastExpiry,
               firstCall, trueCount, runStart>>

validatorVars == <<vpc, currentRoute, networkErrors, jsErrors, caught, result,
                   calls, heardNetwork, heardJs, navStatus, checked,
                   swallowed>>

driverVars == <<hpc, routes, position, results, visited>>

chartVars == <<nodes, filteredEntityTypes, groupedData, cursor, series, rpc>>

vars == <<yieldVars, validatorVars, driverVars, chartVars>>

\* ------------------------------------------------------------------ doYield

\* variants of line 6: `>=` for `>`; a deadline taken one too late
ExceededInclusive(time) == time >= nextYield

ExceededLate(time) == time > nextYield + 1

\* line 6: Date.now() > nextYield
Exceeded(time) == time > nextYield

\* variant of line 14: the budget is not added
NewDeadlineNoBudget(time) == time

\* line 14: Date.now() + MAX_EVENT_LOOP_PROCESSING_TIME
NewDeadline(time) == time + MAX_EVENT_LOOP_PROCESSING_TIME

\* variant of line 7: the deadline is not cleared
ClearedDeadlineKept == nextYield

\* line 7: nextYield = undefined
ClearedDeadline == Undefined

\* line 16: return false
FalseResult == "false"

\* variant of line 11: the suspended call returns false
TrueResultFalse == "false"

\* line 11: return true
TrueResult == "true"

\* no call is suspended
NoExpiry == [task |-> 0, armer |-> 0, fresh |-> FALSE]

\* tasks other than t whose call is in progress see a step of t
Interleave(t) ==
  [u \in Tasks |-> IF u # t /\ pc[u] = "awaiting" THEN TRUE ELSE interleaved[u]]

\* bookkeeping common to every call of task t that reads the clock as time
Entered(t, time) ==
  /\ lastCall' = [task |-> t, seq |-> 1 - lastCall.seq]
  /\ lastStep' = "call"
  /\ firstCall' = IF firstCall = Undefined THEN time ELSE firstCall
  /\ interleaved' = [Interleave(t) EXCEPT ![t] = FALSE]
  /\ UNCHANGED trueCount

\* lines 13-16: nextYield is undefined: arm the deadline, return false
Arm(t, time) ==
  /\ nextYield = Undefined
  /\ nextYield' = NewDeadline(time)
  /\ armedAt' = time
  /\ armedBy' = t
  /\ windowYields' = 0
  /\ pc' = [pc EXCEPT ![t] = "done"]
  /\ ret' = [ret EXCEPT ![t] = FalseResult]
  /\ branch' = [branch EXCEPT ![t] = "arm"]
  /\ yields' = [yields EXCEPT ![t] = 0]
  /\ UNCHANGED <<timers, lastExpiry>>

\* variant of lines 5-6, 16: the branch that finds the deadline not passed
\* sets a new one
WithinRearms(t, time) ==
  /\ nextYield # Undefined
  /\ ~Exceeded(time)
  /\ nextYield' = NewDeadline(time)
  /\ armedAt' = time
  /\ armedBy' = t
  /\ pc' = [pc EXCEPT ![t] = "done"]
  /\ ret' = [ret EXCEPT ![t] = FalseResult]
  /\ branch' = [branch EXCEPT ![t] = "within"]
  /\ yields' = [yields EXCEPT ![t] = 0]
  /\ UNCHANGED <<windowYields, timers, lastExpiry>>

\* lines 5-6, 16: the deadline is set and not passed: return false
Within(t, time) ==
  /\ nextYield # Undefined
  /\ ~Exceeded(time)
  /\ pc' = [pc EXCEPT ![t] = "done"]
  /\ ret' = [ret EXCEPT ![t] = FalseResult]
  /\ branch' = [branch EXCEPT ![t] = "within"]
  /\ yields' = [yields EXCEPT ![t] = 0]
  /\ UNCHANGED <<nextYield, armedAt, armedBy, windowYields, timers, lastExpiry>>

\* lines 5-10: the deadline is passed: clear it, schedule the zero-delay
\* continuation and suspend at the await
Expired(t, time) ==
  /\ nextYield # Undefined
  /\ Exceeded(time)
  /\ nextYield' = ClearedDeadline
  /\ armedAt' = IF nextYield' = Undefined THEN Undefined ELSE armedAt
  /\ armedBy' = IF nextYield' = Undefined THEN 0 ELSE armedBy
  /\ lastExpiry' = [task |-> t, armer |-> armedBy, fresh |-> pc[t] = "idle"]
  /\ windowYields' = windowYields + 1
  /\ timers' = Append(timers, t)
  /\ pc' = [pc EXCEPT ![t] = "awaiting"]
  /\ ret' = [ret EXCEPT ![t] = "none"]
  /\ branch' = [branch EXCEPT ![t] = "expired"]
  /\ yields' = [yields EXCEPT ![t] = 1]

\* lines 4-16: the synchronous part of one doYield call by task t, made
\* d ms after the previous step
Call(t, d) ==
  /\ pc[t] # "awaiting"
  /\ now' = now + d
  /\ Entered(t, now + d)
  /\ \/ Arm(t, now + d)
     \/ Within(t, now + d)
     \/ Expired(t, now + d)

\* variant of lines 8-11: the deadline is cleared after the await instead of
\* before it
ResumeClears(t, d) ==
  /\ timers # << >>
  /\ Head(timers) = t
  /\ now' = now + d
  /\ timers' = Tail(timers)
  /\ nextYield' = Undefined
  /\ armedAt' = Undefined
  /\ armedBy' = 0
  /\ pc' = [pc EXCEPT ![t] = "done"]
  /\ ret' = [ret EXCEPT ![t] = TrueResult]
  /\ trueCount' = trueCount + 1
  /\ interleaved' = Interleave(t)
  /\ lastStep' = "resume"
  /\ lastExpiry' = IF lastExpiry.task = t THEN NoExpiry ELSE lastExpiry
  /\ UNCHANGED <<branch, yields, lastCall, windowYields, firstCall>>

\* lines 8-11: the timer of task t fires d ms after the previous step, the
\* await completes and the call returns true
Resume(t, d) ==
  /\ timers # << >>
  /\ Head(timers) = t
  /\ now' = now + d
  /\ timers' = Tail(timers)
  /\ pc' = [pc EXCEPT ![t] = "done"]
  /\ ret' = [ret EXCEPT ![t] = TrueResult]
  /\ trueCount' = trueCount + 1
  /\ interleaved' = Interleave(t)
  /\ lastStep' = "resume"
  /\ lastExpiry' = IF lastExpiry.task = t THEN NoExpiry ELSE lastExpiry
  /\ UNCHANGED <<nextYield, branch, yields, lastCall, armedAt, windowYields,
                 armedBy, firstCall>>

\* ----------------------------------------------------------- specifications

YieldInit ==
  /\ now \in 0..MaxStart
  /\ nextYield = Undefined
  /\ timers = << >>
  /\ pc = [t \in Tasks |-> "idle"]
  /\ ret = [t \in Tasks |-> "none"]
  /\ branch = [t \in Tasks |-> "none"]
  /\ yields = [t \in Tasks |-> 0]
  /\ interleaved = [t \in Tasks |-> FALSE]
  /\ lastCall = [task |-> 0, seq |-> 0]
  /\ lastStep = "init"
  /\ armedAt = Undefined
  /\ windowYields = 0
  /\ armedBy = 0
  /\ lastExpiry = NoExpiry
  /\ firstCall = Undefined
  /\ trueCount = 0
  /\ runStart = now

\* ===================================================== route validation suite

\* ------------------------------------------------- RouteTestConfig, messages

\* RouteValidator.pageModel.ts:10-19.  path is the sequence of its segments
\* ('/dashboard/data' is <<"dashboard", "data">>); an optional field that is
\* not given is "absent"; expectedElements is the number of selectors given
\* (Undefined: not given); the timeout field, used only as the navigation
\* timeout, is left out.
RouteConfig(path, name, expected) ==
  [path |-> path, name |-> name, expectedElements |-> expected,
   requiresAuth |-> "absent", skipReason |-> "absent",
   waitForElements |-> "absent", customValidation |-> "absent"]

\* a message is the set of the patterns of lines 128-141 and 148-156 that
\* occur in it, case ignored, and of the prefix line 118 adds
ConsoleIgnorablePatterns ==
  {"WebSocket connection", "Failed to load resource", "favicon.ico", "sw.js",
   "Extension", "chrome-extension", "Non-Error promise rejection captured",
   "ResizeObserver loop limit exceeded", "ChunkLoadError", "Loading chunk",
   "AbortError", "NetworkError when attempting to fetch resource"}

IgnorableJsPatterns ==
  {"Script error", "ResizeObserver loop limit exceeded",
   "Non-Error promise rejection captured", "Loading CSS chunk",
   "Loading chunk", "Network request failed", "AbortError"}

\* lines 127-144
IsIgnorableConsoleError(message) ==
  \E pattern \in ConsoleIgnorablePatterns : pattern \in message

\* lines 146-159
IsIgnorableJSError(message) ==
  \E pattern \in IgnorableJsPatterns : pattern \in message

\* line 118: `Console Error: ${text}`
ConsoleMessage(text) == text \cup {"Console Error: "}

\* lines 92, 181: status >= 400
IsErrorStatus(status) == status >= 400

\* variant of line 208: a status of 500 is not critical
IsServerErrorAbove(status) == status > 500

\* line 208: status >= 500
IsServerError(status) == status >= 500

\* lines 218-219, 256-257: [...list], a new array with the same elements
Copy(list) == [items |-> list, aliased |-> FALSE]

\* variant of lines 405-408: the arrays are not emptied
ClearedKept(list) == list

\* lines 405-408: the array that replaces list
Cleared(list) == << >>

\* an array the validator no longer holds: nothing is pushed to it any more
Detached(copy) == [copy EXCEPT !.aliased = FALSE]

\* a push to the validator's array is seen through every alias of it
Pushed(copy, entry) ==
  IF copy.aliased THEN [copy EXCEPT !.items = Append(@, entry)] ELSE copy

\* no error: the `error` field of a successful result is absent
NoError == [message |-> "absent"]

\* lines 223-235: the message of the error caught, followed by the statuses
\* of the recorded network errors and the messages of the first two JS errors
DetailedError(message) ==
  [message |-> message,
   network |-> [i \in DOMAIN networkErrors |-> networkErrors[i].status],
   js |-> [i \in (DOMAIN jsErrors) \cap (1..2) |-> jsErrors[i].message]]

\* RouteValidator.pageModel.ts:47-49, 84-87: a validator just constructed
\* (no call made yet, nothing recorded)
NoRoute == RouteConfig(<< >>, "", Undefined)

NoResult ==
  [call |-> 0, success |-> FALSE, route |-> NoRoute, error |-> NoError,
   networkErrors |-> [items |-> << >>, aliased |-> FALSE],
   jsErrors |-> [items |-> << >>, aliased |-> FALSE], screenshot |-> FALSE]

ValidatorInit ==
  /\ vpc = "idle"
  /\ currentRoute = NoRoute
  /\ networkErrors = << >>
  /\ jsErrors = << >>
  /\ caught = NoError
  /\ result = NoResult
  /\ calls = 0
  /\ heardNetwork = << >>
  /\ heardJs = << >>
  /\ navStatus = 0
  /\ checked = << >>
  /\ swallowed = << >>

\* no test and no validateRoutes call is running
DriverOff ==
  /\ hpc = "off"
  /\ routes = << >>
  /\ position = 0
  /\ results = << >>
  /\ visited = << >>

\* no PirThreatMap is rendered
ChartOff ==
  /\ nodes = << >>
  /\ filteredEntityTypes = << >>
  /\ groupedData = << >>
  /\ cursor = 0
  /\ series = << >>
  /\ rpc = "off"

Init == YieldInit /\ ValidatorInit /\ DriverOff /\ ChartOff

\* a call, or a resumption, of a task whose caller is not observed
TaskCall(t, d) ==
  Call(t, d) /\ UNCHANGED <<runStart, validatorVars, driverVars, chartVars>>

TaskResume(t, d) ==
  Resume(t, d) /\ UNCHANGED <<runStart, validatorVars, driverVars, chartVars>>

\* any number of tasks, calls at any times
Next ==
  \/ \E t \in Tasks, d \in Ticks : now + d <= MaxTime /\ TaskCall(t, d)
  \/ \E t \in Tasks, d \in Ticks : now + d <= MaxTime /\ TaskResume(t, d)

Spec == Init /\ [][Next]_vars

\* the scheduler eventually runs a zero-delay continuation that is due
\* (setTimeout(resolve, 0), line 9)
RunContinuation == \E t \in Tasks : TaskResume(t, 0)

\* calls made back to back or just over the processing budget apart
FairTicks == {0, MAX_EVENT_LOOP_PROCESSING_TIME + 1}

NextFair ==
  \/ \E t \in Tasks, d \in FairTicks : now + d <= MaxTime /\ TaskCall(t, d)
  \/ \E t \in Tasks, d \in FairTicks : now + d <= MaxTime /\ TaskResume(t, d)

SpecFair == Init /\ [][NextFair]_vars /\ WF_vars(RunContinuation)

\* one caller whose calls have strictly increasing timestamps (the first
\* call is made within MaxTick of the process start)
SeqGaps == IF firstCall = Undefined THEN 0..MaxTick ELSE 1..SeqMaxTick

NextSeq ==
  \/ \E d \in SeqGaps : now + d <= SeqMaxTime /\ TaskCall(1, d)
  \/ TaskResume(1, 0)

SpecSeq == Init /\ [][NextSeq]_vars

\* one loop that awaits doYield once per iteration, consecutive calls at
\* most MaxGap apart; the scheduler takes up to MaxTick to resume it, and
\* the loop notes when it is resumed
LoopCall(d) ==
  Call(1, d) /\ UNCHANGED <<runStart, validatorVars, driverVars, chartVars>>

LoopResume(d) ==
  Resume(1, d) /\ runStart' = now + d
  /\ UNCHANGED <<validatorVars, driverVars, chartVars>>

NextLoop ==
  \/ \E d \in 0..MaxGap : now + d <= LoopMaxTime /\ LoopCall(d)
  \/ \E d \in 0..MaxTick : now + d <= LoopMaxTime /\ LoopResume(d)

SpecLoop == Init /\ [][NextLoop]_vars

\* ------------------------------------------------------ page event handlers

Recorded == Len(networkErrors) + Len(jsErrors)

\* lines 91-100: a response arrives; it is recorded when its status >= 400
OnResponse(status) ==
  /\ Recorded < MaxRecorded
  /\ IF IsErrorStatus(status)
       THEN /\ networkErrors' = Append(networkErrors, [status |-> status])
            /\ heardNetwork' = Append(heardNetwork, [status |-> status])
            /\ result' = [result EXCEPT
                            !.networkErrors = Pushed(@, [status |-> status])]
       ELSE UNCHANGED <<networkErrors, heardNetwork, result>>
  /\ UNCHANGED <<vpc, currentRoute, jsErrors, caught, calls, heardJs,
                 navStatus, swallowed, checked>>

\* the validator's jsErrors.push(entry)
PushJsError(entry) ==
  /\ jsErrors' = Append(jsErrors, entry)
  /\ heardJs' = Append(heardJs, entry)
  /\ result' = [result EXCEPT !.jsErrors = Pushed(@, entry)]

\* lines 103-110: an uncaught exception in the page is always recorded
OnPageError(message) ==
  /\ Recorded < MaxRecorded
  /\ PushJsError([message |-> message, source |-> "page"])
  /\ UNCHANGED <<vpc, currentRoute, networkErrors, caught, calls,
                 heardNetwork, navStatus, swallowed, checked>>

\* lines 113-124: a console message is recorded when it is an error that the
\* console filter does not ignore
OnConsole(type, text) ==
  /\ Recorded < MaxRecorded
  /\ IF type = "error" /\ ~IsIgnorableConsoleError(text)
       THEN PushJsError([message |-> ConsoleMessage(text), source |-> "console"])
       ELSE UNCHANGED <<jsErrors, heardJs, result>>
  /\ UNCHANGED <<vpc, currentRoute, networkErrors, caught, calls,
                 heardNetwork, navStatus, swallowed, checked>>

\* ------------------------------------------------------------ validateRoute

\* lines 165-171: the call starts: the config is noted, both arrays are
\* replaced, and the navigation is awaited
Begin(config) ==
  /\ vpc \in {"idle", "rejected"}
  /\ vpc' = "goto"
  /\ calls' = calls + 1
  /\ currentRoute' = config
  /\ networkErrors' = Cleared(networkErrors)
  /\ jsErrors' = Cleared(jsErrors)
  /\ heardNetwork' = << >>
  /\ heardJs' = << >>
  /\ result' = [result EXCEPT !.networkErrors = Detached(@),
                              !.jsErrors = Detached(@)]
  /\ caught' = NoError
  /\ navStatus' = 0
  /\ checked' = << >>
  /\ swallowed' = << >>

\* a value thrown that is no Error and that String() cannot convert: an
\* object without prototype, or one whose toString throws
Unconvertible == "unconvertible"

\* line 224: error instanceof Error ? error.message : String(error): an
\* Error, or a value String() converts, gives a message (the text that
\* stands for the error here); for any other value String() throws
HasMessage(error) == error # Unconvertible

\* lines 222-243: an error thrown inside the try block is caught, the
\* detailed message is built and the screenshot is awaited; when the
\* message cannot be built the catch block itself throws a TypeError and
\* the call rejects
Throw(error) ==
  IF HasMessage(error)
    THEN vpc' = "shot" /\ caught' = DetailedError(error)
    ELSE vpc' = "rejected" /\ caught' = NoError

\* a check passed and the validation goes on to await the next operation
Pass(check, next) ==
  /\ vpc' = next
  /\ checked' = Append(checked, check)
  /\ UNCHANGED caught

\* lines 200-221: the final error checks and the successful result, run in
\* the segment that completes the last awaited operation
Conclude(check) ==
  LET jsOk == \A i \in DOMAIN jsErrors :
                IsIgnorableJSError(jsErrors[i].message)
      networkOk == \A i \in DOMAIN networkErrors :
                     ~IsServerError(networkErrors[i].status)
  IN  /\ checked' = Append(checked, check)
                       \o (IF jsOk THEN <<"jsErrors">> ELSE << >>)
                       \o (IF jsOk /\ networkOk THEN <<"networkErrors">> ELSE << >>)
      /\ IF ~jsOk
           THEN Throw("JavaScript errors detected") /\ UNCHANGED result
           ELSE IF ~networkOk
             THEN Throw("Server errors detected") /\ UNCHANGED result
             ELSE /\ vpc' = "idle"
                  /\ result' = [call |-> calls, success |-> TRUE,
                                route |-> currentRoute, error |-> NoError,
                                networkErrors |-> Copy(networkErrors),
                                jsErrors |-> Copy(jsErrors),
                                screenshot |-> FALSE]
                  /\ UNCHANGED caught

\* what no step of validateRoute itself changes after the call has started
Quiet == UNCHANGED <<currentRoute, networkErrors, jsErrors, calls,
                     heardNetwork, heardJs>>

\* lines 171-186: page.goto completes: it throws, or yields no response, or
\* yields a response, whose status is checked
GotoDone(outcome, status) ==
  /\ vpc = "goto"
  /\ Quiet
  /\ UNCHANGED <<result, swallowed>>
  /\ IF outcome = "throws"
       THEN Throw("page.goto failed") /\ UNCHANGED <<navStatus, checked>>
       ELSE IF outcome = "null"
         THEN /\ Throw("Navigation failed - no response received")
              /\ UNCHANGED <<navStatus, checked>>
         ELSE /\ navStatus' = status
              /\ IF IsErrorStatus(status)
                   THEN /\ Throw("HTTP status")
                        /\ checked' = Append(checked, "navigation")
                   ELSE /\ vpc' = "domReady"
                        /\ checked' = checked \o <<"navigation", "status">>
                        /\ UNCHANGED caught

\* lines 265-270: waitForLoadState('domcontentloaded') completes or throws
DomReadyDone(loaded) ==
  /\ vpc = "domReady"
  /\ Quiet
  /\ UNCHANGED <<result, navStatus, swallowed>>
  /\ IF loaded
       THEN vpc' = "loader" /\ UNCHANGED <<caught, checked>>
       ELSE Throw("page.waitForLoadState failed") /\ UNCHANGED checked

\* variant of line 279: the expected elements are waited for whenever given
WaitsForElementsAlways(config) == config.expectedElements # Undefined

\* lines 269-276, 281-285: a wait that timed out throws, the catch block
\* swallows the exception and the timeout is noted
Swallow(wait, appeared) ==
  swallowed' = IF appeared THEN swallowed ELSE Append(swallowed, wait)

\* line 279: are the expected elements waited for
WaitsForElements(config) ==
  config.expectedElements # Undefined /\ config.waitForElements # "false"

\* lines 269-287, 292: the wait for the loader to hide ends, by the loader
\* being hidden or by a timeout that is swallowed
LoaderDone(hidden) ==
  /\ vpc = "loader"
  /\ Quiet
  /\ UNCHANGED <<result, navStatus>>
  /\ Swallow("loader", hidden)
  /\ IF WaitsForElements(currentRoute) /\ currentRoute.expectedElements > 0
       THEN vpc' = "elements" /\ UNCHANGED <<caught, checked>>
       ELSE Pass("ready", "errorStates")

\* lines 280-287, 292: the waits for the expected elements end, each by the
\* element being found or by a timeout that is swallowed
ElementsDone(found) ==
  /\ vpc = "elements"
  /\ Quiet
  /\ UNCHANGED <<result, navStatus>>
  /\ Swallow("element", found)
  /\ Pass("ready", "errorStates")

\* lines 306-319, 295: the first error indicator found visible, if any
ErrorStatesDone(visible) ==
  /\ vpc = "errorStates"
  /\ Quiet
  /\ UNCHANGED <<result, navStatus, swallowed>>
  /\ IF visible = "none"
       THEN Pass("errorStates", "structure")
       ELSE Throw(visible) /\ UNCHANGED checked

\* variant of line 298: authentication is checked only when asked for
ChecksAuthenticationIfTrue(config) == config.requiresAuth = "true"

\* line 298: config.requiresAuth !== false
ChecksAuthentication(config) == config.requiresAuth # "false"

\* lines 321-352 and 298-299, 356-362: the structure check ends; when it
\* passes and authentication is checked, the page URL is examined at once
StructureDone(outcome, url) ==
  /\ vpc = "structure"
  /\ Quiet
  /\ UNCHANGED <<result, navStatus, swallowed>>
  /\ IF outcome # "ok"
       THEN Throw(outcome) /\ UNCHANGED checked
       ELSE IF ~ChecksAuthentication(currentRoute)
         THEN Pass("structure", "dataLoading")
         ELSE IF url = "login"
           THEN /\ Throw("Redirected to login page - authentication required")
                /\ checked' = Append(checked, "structure")
           ELSE Pass("structure", "auth")

\* lines 362-368, 303: is the navigation visible
AuthDone(hasNavigation) ==
  /\ vpc = "auth"
  /\ Quiet
  /\ UNCHANGED <<result, navStatus, swallowed>>
  /\ IF hasNavigation
       THEN Pass("auth", "dataLoading")
       ELSE /\ Throw("Navigation not found - authentication may have failed")
            /\ UNCHANGED checked

\* lines 371-403, 192-221: the data-loading check ends; when it passes, the
\* custom validation is awaited if there is one, otherwise the validation
\* is concluded
DataLoadingDone(outcome) ==
  /\ vpc = "dataLoading"
  /\ Quiet
  /\ UNCHANGED <<navStatus, swallowed>>
  /\ IF outcome # "ok"
       THEN Throw(outcome) /\ UNCHANGED <<checked, result>>
       ELSE IF currentRoute.customValidation = "present"
         THEN Pass("dataLoading", "custom") /\ UNCHANGED result
         ELSE Conclude("dataLoading")

\* lines 193-221: the custom validation resolves to a value or rejects,
\* with an Error or with a value that String() cannot convert
CustomDone(outcome) ==
  /\ vpc = "custom"
  /\ Quiet
  /\ UNCHANGED <<navStatus, swallowed>>
  /\ IF outcome = "true"
       THEN Conclude("customValidation")
       ELSE /\ UNCHANGED <<checked, result>>
            /\ IF outcome = "false"
                 THEN Throw("Custom validation requirements not met")
                 ELSE IF outcome = "throws"
                   THEN Throw("customValidation failed")
                   ELSE Throw(Unconvertible)

\* lines 243-261: the screenshot is taken or fails; either way the failure
\* result is returned, with the errors recorded up to now
ScreenshotDone(taken) ==
  /\ vpc = "shot"
  /\ Quiet
  /\ UNCHANGED <<navStatus, checked, swallowed>>
  /\ vpc' = "idle"
  /\ caught' = NoError
  /\ result' = [call |-> calls, success |-> FALSE, route |-> currentRoute,
                error |-> caught, networkErrors |-> Copy(networkErrors),
                jsErrors |-> Copy(jsErrors), screenshot |-> taken]

\* this step ends a validateRoute call: its promise resolves
Settles == vpc # "idle" /\ vpc' = "idle"

\* this step ends a validateRoute call: its promise rejects
Rejects == vpc # "rejected" /\ vpc' = "rejected"

\* ------------------------------------- one validateRoute call, any outcome

\* what the page and the caller can present
Statuses == {200, 399, 400, 500}

\* errors only
ErrorStatuses == {400, 500}

GotoOutcomes == {"throws", "null", "response"}

\* "TypeError: ..." (no pattern), "Script error." (ignorable as a JS error
\* only), a favicon.ico load failure (ignorable by the console filter only)
Messages == {{}, {"Script error"}, {"favicon.ico"}}

ConsoleTypes == {"error", "log"}

ErrorIndicators == {"none", "Page shows 404 Not Found", "Page shows Access Denied"}

StructureOutcomes ==
  {"ok", "Page missing basic content structure", "Page has no title set",
   "page.title failed"}

Urls == {"app", "login"}

DataLoadingOutcomes ==
  {"ok", "Data loading error detected on page", "page.waitForTimeout failed"}

CustomOutcomes == {"true", "false", "throws", "throws unconvertible"}

\* configs without skipReason: every combination of requiresAuth and
\* customValidation, and of expectedElements and waitForElements
ValidateConfigs ==
  { [RouteConfig(<<"dashboard">>, "Route", Undefined)
       EXCEPT !.requiresAuth = auth, !.customValidation = custom] :
      auth \in {"absent", "true", "false"}, custom \in {"absent", "present"} }
  \cup
  { [RouteConfig(<<"dashboard">>, "Route", expected)
       EXCEPT !.waitForElements = wait] :
      expected \in {Undefined, 0, 1}, wait \in {"absent", "true", "false"} }

\* a validateRoute call is under way
Validating == vpc \notin {"idle", "rejected"}

\* the caller is left out: only the validator moves
Free == UNCHANGED <<yieldVars, driverVars, chartVars>>

\* one call; the page emits its events while the call is under way
NextValidate ==
  \/ \E config \in ValidateConfigs : calls = 0 /\ Begin(config) /\ Free
  \/ \E outcome \in GotoOutcomes, status \in Statuses :
       GotoDone(outcome, status) /\ Free
  \/ \E loaded \in BOOLEAN : DomReadyDone(loaded) /\ Free
  \/ \E hidden \in BOOLEAN : LoaderDone(hidden) /\ Free
  \/ \E found \in BOOLEAN : ElementsDone(found) /\ Free
  \/ \E visible \in ErrorIndicators : ErrorStatesDone(visible) /\ Free
  \/ \E outcome \in StructureOutcomes, url \in Urls :
       StructureDone(outcome, url) /\ Free
  \/ \E hasNavigation \in BOOLEAN : AuthDone(hasNavigation) /\ Free
  \/ \E outcome \in DataLoadingOutcomes : DataLoadingDone(outcome) /\ Free
  \/ \E outcome \in CustomOutcomes : CustomDone(outcome) /\ Free
  \/ \E taken \in BOOLEAN : ScreenshotDone(taken) /\ Free
  \/ \E status \in Statuses : Validating /\ OnResponse(status) /\ Free
  \/ \E message \in Messages : Validating /\ OnPageError(message) /\ Free
  \/ \E type \in ConsoleTypes, text \in Messages :
       Validating /\ OnConsole(type, text) /\ Free

InitValidate == Init /\ now = 0

SpecValidate == InitValidate /\ [][NextValidate]_vars

\* ----------------------------------- validateRoute calls one after another

\* up to MaxCalls calls on one validator for a route without optional
\* fields; the page answers the navigation with 200 or 500, fails no page
\* check, and emits error responses and uncaught exceptions at any time
PlainConfig == RouteConfig(<<"dashboard">>, "Route", Undefined)

NextWindow ==
  \/ calls < MaxCalls /\ Begin(PlainConfig) /\ Free
  \/ \E status \in {200, 500} : GotoDone("response", status) /\ Free
  \/ DomReadyDone(TRUE) /\ Free
  \/ LoaderDone(TRUE) /\ Free
  \/ ErrorStatesDone("none") /\ Free
  \/ StructureDone("ok", "app") /\ Free
  \/ AuthDone(TRUE) /\ Free
  \/ DataLoadingDone("ok") /\ Free
  \/ \E taken \in BOOLEAN : ScreenshotDone(taken) /\ Free
  \/ \E status \in ErrorStatuses : OnResponse(status) /\ Free
  \/ \E message \in {{}, {"Script error"}} : OnPageError(message) /\ Free

SpecWindow == InitValidate /\ [][NextWindow]_vars

\* ------------------------------------------------------- the route catalogue

\* routeConfigs.ts: the route collections, in the order of the file; every
\* route below gives path, name and at most one expectedElements selector
\* (and some a timeout), and no other field

DASHBOARD_ROUTES ==
  <<RouteConfig(<<"dashboard">>, "Main Dashboard", 1),
    RouteConfig(<<"dashboard", "workspaces", "dashboards">>, "Custom Dashboards", 1)>>

SEARCH_ROUTES ==
  <<RouteConfig(<<"dashboard", "search">>, "Search Root", Undefined),
    RouteConfig(<<"dashboard", "search", "knowledge">>, "Knowledge Search", 1),
    RouteConfig(<<"dashboard", "search", "files">>, "File Search", 1)>>

ANALYSIS_ROUTES ==
  <<RouteConfig(<<"dashboard", "analyses">>, "Analyses Root", 1),
    RouteConfig(<<"dashboard", "analyses", "reports">>, "Reports", 1),
    RouteConfig(<<"dashboard", "analyses", "groupings">>, "Groupings", 1),
    RouteConfig(<<"dashboard", "analyses", "malware_analyses">>, "Malware Analyses", 1),
    RouteConfig(<<"dashboard", "analyses", "notes">>, "Notes", 1),
    RouteConfig(<<"dashboard", "analyses", "external_references">>, "External References", 1)>>

CASE_ROUTES ==
  <<RouteConfig(<<"dashboard", "cases">>, "Cases Root", 1),
    RouteConfig(<<"dashboard", "cases", "incidents">>, "Incident Response", 1),
    RouteConfig(<<"dashboard", "cases", "rfis">>, "Requests for Information", 1),
    RouteConfig(<<"dashboard", "cases", "rfts">>, "Requests for Takedown", 1),
    RouteConfig(<<"dashboard", "cases", "tasks">>, "Tasks", 1),
    RouteConfig(<<"dashboard", "cases", "feedbacks">>, "Feedbacks", 1)>>

EVENT_ROUTES ==
  <<RouteConfig(<<"dashboard", "events">>, "Events Root", 1),
    RouteConfig(<<"dashboard", "events", "incidents">>, "Security Incidents", 1),
    RouteConfig(<<"dashboard", "events", "sightings">>, "Sightings", 1)>>

THREAT_ROUTES ==
  <<RouteConfig(<<"dashboard", "threats">>, "Threats Root", 1),
    RouteConfig(<<"dashboard", "threats", "threat_actors_group">>, "Threat Actor Groups", 1),
    RouteConfig(<<"dashboard", "threats", "threat_actors_individual">>, "Threat Actor Individuals", 1),
    RouteConfig(<<"dashboard", "threats", "intrusion_sets">>, "Intrusion Sets", 1),
    RouteConfig(<<"dashboard", "threats", "campaigns">>, "Campaigns", 1)>>

ARSENAL_ROUTES ==
  <<RouteConfig(<<"dashboard", "arsenal">>, "Arsenal Root", 1),
    RouteConfig(<<"dashboard", "arsenal", "malwares">>, "Malwares", 1),
    RouteConfig(<<"dashboard", "arsenal", "channels">>, "Channels", 1),
    RouteConfig(<<"dashboard", "arsenal", "tools">>, "Tools", 1),
    RouteConfig(<<"dashboard", "arsenal", "vulnerabilities">>, "Vulnerabilities", 1)>>

TECHNIQUE_ROUTES ==
  <<RouteConfig(<<"dashboard", "techniques">>, "Techniques Root", 1),
    RouteConfig(<<"dashboard", "techniques", "attack_patterns">>, "Attack Patterns", 1),
    RouteConfig(<<"dashboard", "techniques", "narratives">>, "Narratives", 1),
    RouteConfig(<<"dashboard", "techniques", "courses_of_action">>, "Courses of Action", 1),
    RouteConfig(<<"dashboard", "techniques", "data_components">>, "Data Components", 1),
    RouteConfig(<<"dashboard", "techniques", "data_sources">>, "Data Sources", 1)>>

OBSERVATION_ROUTES ==
  <<RouteConfig(<<"dashboard", "observations">>, "Observations Root", 1),
    RouteConfig(<<"dashboard", "observations", "observables">>, "Observables", 1),
    RouteConfig(<<"dashboard", "observations", "artifacts">>, "Artifacts", 1),
    RouteConfig(<<"dashboard", "observations", "indicators">>, "Indicators", 1),
    RouteConfig(<<"dashboard", "observations", "infrastructures">>, "Infrastructures", 1)>>

ENTITY_ROUTES ==
  <<RouteConfig(<<"dashboard", "entities">>, "Entities Root", 1),
    RouteConfig(<<"dashboard", "entities", "sectors">>, "Sectors", 1),
    RouteConfig(<<"dashboard", "entities", "events">>, "Events", 1),
    RouteConfig(<<"dashboard", "entities", "organizations">>, "Organizations", 1),
    RouteConfig(<<"dashboard", "entities", "systems">>, "Systems", 1),
    RouteConfig(<<"dashboard", "entities", "individuals">>, "Individuals", 1)>>

LOCATION_ROUTES ==
  <<RouteConfig(<<"dashboard", "locations">>, "Locations Root", 1),
    RouteConfig(<<"dashboard", "locations", "regions">>, "Regions", 1),
    RouteConfig(<<"dashboard", "locations", "countries">>, "Countries", 1),
    RouteConfig(<<"dashboard", "locations", "administrative_areas">>, "Administrative Areas", 1),
    RouteConfig(<<"dashboard", "locations", "cities">>, "Cities", 1),
    RouteConfig(<<"dashboard", "locations", "positions">>, "Positions", 1)>>

DATA_ROUTES ==
  <<RouteConfig(<<"dashboard", "data">>, "Data Root", 1),
    RouteConfig(<<"dashboard", "data", "entities">>, "Data Entities", 1),
    RouteConfig(<<"dashboard", "data", "relationships">>, "Data Relationships", 1),
    RouteConfig(<<"dashboard", "data", "import">>, "Data Import", 1),
    RouteConfig(<<"dashboard", "data", "import", "connectors">>, "Import Connectors", 1),
    RouteConfig(<<"dashboard", "data", "processing">>, "Data Processing", 1),
    RouteConfig(<<"dashboard", "data", "sharing">>, "Data Sharing", 1),
    RouteConfig(<<"dashboard", "data", "ingestion">>, "Data Ingestion", 1)>>

WORKSPACE_ROUTES ==
  <<RouteConfig(<<"dashboard", "workspaces">>, "Workspaces Root", 1),
    RouteConfig(<<"dashboard", "workspaces", "dashboards">>, "Custom Dashboards", 1),
    RouteConfig(<<"dashboard", "workspaces", "investigations">>, "Investigations", 1)>>

SETTINGS_ROUTES ==
  <<RouteConfig(<<"dashboard", "settings">>, "Settings Root", 1),
    RouteConfig(<<"dashboard", "settings", "accesses">>, "Access Management", 1),
    RouteConfig(<<"dashboard", "settings", "accesses", "roles">>, "Roles", 1),
    RouteConfig(<<"dashboard", "settings", "accesses", "groups">>, "Groups", 1),
    RouteConfig(<<"dashboard", "settings", "accesses", "users">>, "Users", 1),
    RouteConfig(<<"dashboard", "settings", "accesses", "sessions">>, "Sessions", 1),
    RouteConfig(<<"dashboard", "settings", "vocabularies">>, "Vocabularies", 1),
    RouteConfig(<<"dashboard", "settings", "entities">>, "Entity Types", 1),
    RouteConfig(<<"dashboard", "settings", "customization">>, "Customization", 1),
    RouteConfig(<<"dashboard", "settings", "parameters">>, "Parameters", 1)>>

PROFILE_ROUTES ==
  <<RouteConfig(<<"dashboard", "profile">>, "Profile Root", 1),
    RouteConfig(<<"dashboard", "profile", "me">>, "My Profile", 1)>>

AUDIT_ROUTES ==
  <<RouteConfig(<<"dashboard", "audits">>, "Audits", 1),
    RouteConfig(<<"dashboard", "audits", "activities">>, "Activities", 1)>>

PIR_ROUTES ==
  <<RouteConfig(<<"dashboard", "pirs">>, "Priority Intelligence Requirements", 1)>>

\* routeConfigs.ts:505-523
getAllRoutes ==
  DASHBOARD_ROUTES \o SEARCH_ROUTES \o ANALYSIS_ROUTES \o CASE_ROUTES
    \o EVENT_ROUTES \o THREAT_ROUTES \o ARSENAL_ROUTES \o TECHNIQUE_ROUTES
    \o OBSERVATION_ROUTES \o ENTITY_ROUTES \o LOCATION_ROUTES \o DATA_ROUTES
    \o WORKSPACE_ROUTES \o PROFILE_ROUTES \o PIR_ROUTES

\* r.path.includes(word), for a word without '/': some segment of the path
\* contains it; no segment of a path above contains 'import' or 'processing'
\* without being equal to it
Includes(path, word) == \E i \in DOMAIN path : path[i] = word

\* routeConfigs.ts:565-569
ADMIN_ONLY_ROUTES ==
  SETTINGS_ROUTES \o AUDIT_ROUTES
    \o SelectSeq(DATA_ROUTES,
                 LAMBDA r : Includes(r.path, "import")
                              \/ Includes(r.path, "processing"))

\* ------------------------------------------------------- the driving loops

\* variant of routeValidation.spec.ts:17 and RouteValidator.pageModel.ts:477:
\* no reason makes a route skipped
TruthyNever(skipReason) == FALSE

\* the truthiness of the optional string skipReason: given and not empty
Truthy(skipReason) == skipReason \notin {"absent", ""}

\* routeValidation.spec.ts:17: routes.filter((route) => !route.skipReason)
RoutesToTest(list) == SelectSeq(list, LAMBDA route : ~Truthy(route.skipReason))

\* RouteValidator.pageModel.ts:476-479: the index of the first config after
\* position from that is not skipped, 0 if there is none
NextConfig(list, from) ==
  LET rest == {i \in DOMAIN list : i > from /\ ~Truthy(list[i].skipReason)}
  IN  IF rest = {} THEN 0 ELSE CHOOSE i \in rest : \A j \in rest : i <= j

\* the sequences over S of length at most n
SeqsUpTo(S, n) == UNION {[1..k -> S] : k \in 0..n}

\* a route, the same route with a skipReason, and with an empty skipReason
LoopConfigs ==
  {PlainConfig,
   [PlainConfig EXCEPT !.name = "Skipped", !.skipReason = "Feature may not be enabled"],
   [PlainConfig EXCEPT !.name = "Unexplained", !.skipReason = ""]}

\* a test, or a validateRoutes call, is about to start on a validator just
\* constructed
InitLoop ==
  /\ YieldInit /\ now = 0
  /\ ValidatorInit
  /\ ChartOff
  /\ hpc = "start"
  /\ routes = << >>
  /\ position = 0
  /\ results = << >>
  /\ visited = << >>

\* a step of validateRoute made on behalf of the loop: when it ends the
\* call, the loop continues with after in the same segment; when the call
\* rejects, the loop is left by the exception (the test fails,
\* validateRoutes rejects)
Driven(after, thrown) ==
  /\ hpc = "validating"
  /\ UNCHANGED <<yieldVars, chartVars>>
  /\ IF Settles THEN after
     ELSE IF Rejects
       THEN hpc' = thrown /\ UNCHANGED <<routes, position, results, visited>>
       ELSE UNCHANGED driverVars

\* ---------- routeValidation.spec.ts: All Routes Must Load Successfully

\* what getAllRoutes() returns: the catalogue of routeConfigs.ts, or a
\* short catalogue with skipped routes
Catalogues == {getAllRoutes} \cup SeqsUpTo(LoopConfigs, MaxRoutes)

\* lines 14-20, 45: the routes are fetched and filtered; the first one is
\* passed to validateRoute; with nothing to test the final expect fails
TestStart(catalogue) ==
  /\ hpc = "start"
  /\ routes' = catalogue
  /\ UNCHANGED <<results, visited, yieldVars, chartVars>>
  /\ IF RoutesToTest(catalogue) = << >>
       THEN hpc' = "failed" /\ UNCHANGED <<position, validatorVars>>
       ELSE /\ hpc' = "validating"
            /\ position' = 1
            /\ Begin(RoutesToTest(catalogue)[1])

\* variant of lines 22-38: an unsuccessful result is only logged
TestVerdictLenient ==
  /\ hpc' = "pausing"
  /\ visited' = Append(visited, [index |-> position, success |-> result'.success])
  /\ UNCHANGED <<routes, position, results>>

\* lines 20-41: the result is examined: expect(result.success).toBeTruthy()
\* fails the test; otherwise the pause is awaited
TestVerdict ==
  /\ hpc' = IF result'.success THEN "pausing" ELSE "failed"
  /\ visited' = Append(visited, [index |-> position, success |-> result'.success])
  /\ UNCHANGED <<routes, position, results>>

\* lines 41, 19-20, 45: the pause ends (or waitForTimeout throws and fails
\* the test): the next route is passed to validateRoute, or the loop is over
\* and the final expect is evaluated
TestPauseDone(elapsed) ==
  /\ hpc = "pausing"
  /\ UNCHANGED <<routes, results, visited, yieldVars, chartVars>>
  /\ IF ~elapsed
       THEN hpc' = "failed" /\ UNCHANGED <<position, validatorVars>>
       ELSE IF position < Len(RoutesToTest(routes))
         THEN /\ hpc' = "validating"
              /\ position' = position + 1
              /\ Begin(RoutesToTest(routes)[position + 1])
         ELSE /\ hpc' = IF Len(RoutesToTest(routes)) > 0
                          THEN "passed" ELSE "failed"
              /\ UNCHANGED <<position, validatorVars>>

\* the navigation is answered with 200 or 500 and no page check fails
NextTest ==
  \/ \E catalogue \in Catalogues : TestStart(catalogue)
  \/ \E status \in {200, 500} :
       GotoDone("response", status) /\ Driven(TestVerdict, "failed")
  \/ DomReadyDone(TRUE) /\ Driven(TestVerdict, "failed")
  \/ LoaderDone(TRUE) /\ Driven(TestVerdict, "failed")
  \/ ElementsDone(TRUE) /\ Driven(TestVerdict, "failed")
  \/ ErrorStatesDone("none") /\ Driven(TestVerdict, "failed")
  \/ StructureDone("ok", "app") /\ Driven(TestVerdict, "failed")
  \/ AuthDone(TRUE) /\ Driven(TestVerdict, "failed")
  \/ DataLoadingDone("ok") /\ Driven(TestVerdict, "failed")
  \/ \E taken \in BOOLEAN : ScreenshotDone(taken) /\ Driven(TestVerdict, "failed")
  \/ \E elapsed \in BOOLEAN : TestPauseDone(elapsed)

SpecTest == InitLoop /\ [][NextTest]_vars

\* ---------------------- RouteValidator.pageModel.ts: validateRoutes

\* the validation of the config at index i is started, or with i = 0 the
\* loop is over and the results are returned
Proceed(i) ==
  IF i = 0
    THEN hpc' = "returned" /\ UNCHANGED <<position, validatorVars>>
    ELSE hpc' = "validating" /\ position' = i /\ Begin(routes'[i])

\* lines 473-481: validateRoutes(configs) is called
BatchStart(configs) ==
  /\ hpc = "start"
  /\ routes' = configs
  /\ results' = << >>
  /\ UNCHANGED <<visited, yieldVars, chartVars>>
  /\ Proceed(NextConfig(configs, 0))

\* lines 481-485: the result is pushed and the pause is awaited
BatchRecord ==
  /\ results' = Append(results, result')
  /\ visited' = Append(visited, [index |-> position, success |-> result'.success])
  /\ hpc' = "pausing"
  /\ UNCHANGED <<routes, position>>

\* lines 485, 476-481, 488: the pause ends, or waitForTimeout throws and
\* validateRoutes rejects
BatchPauseDone(elapsed) ==
  /\ hpc = "pausing"
  /\ UNCHANGED <<routes, results, visited, yieldVars, chartVars>>
  /\ IF elapsed
       THEN Proceed(NextConfig(routes, position))
       ELSE hpc' = "rejected" /\ UNCHANGED <<position, validatorVars>>

\* the navigation is answered with 200 or 500 and no page check fails
NextBatch ==
  \/ \E configs \in SeqsUpTo(LoopConfigs, MaxRoutes) : BatchStart(configs)
  \/ \E status \in {200, 500} :
       GotoDone("response", status) /\ Driven(BatchRecord, "rejected")
  \/ DomReadyDone(TRUE) /\ Driven(BatchRecord, "rejected")
  \/ LoaderDone(TRUE) /\ Driven(BatchRecord, "rejected")
  \/ ErrorStatesDone("none") /\ Driven(BatchRecord, "rejected")
  \/ StructureDone("ok", "app") /\ Driven(BatchRecord, "rejected")
  \/ AuthDone(TRUE) /\ Driven(BatchRecord, "rejected")
  \/ DataLoadingDone("ok") /\ Driven(BatchRecord, "rejected")
  \/ \E taken \in BOOLEAN : ScreenshotDone(taken) /\ Driven(BatchRecord, "rejected")
  \/ \E elapsed \in BOOLEAN : BatchPauseDone(elapsed)

SpecBatch == InitLoop /\ [][NextBatch]_vars

\* ------------------------------------------------- PirThreatMap: the groups

\* PirThreatMap.tsx:90: two dates less than this many minutes apart are close
CLOSE_MINUTES == 1440

\* PirThreatMap.tsx:90: two scores less than this apart are close
CLOSE_SCORE == 5

\* utils/Time (not in src): the minutes from one date to the other, dates
\* being counted in minutes
minutesBetweenDates(startDate, endDate) == endDate - startDate

\* Math.abs
Abs(x) == IF x < 0 THEN -x ELSE x

\* Array.prototype.includes
ArrayIncludes(array, value) == \E i \in 1..Len(array) : array[i] = value

\* utils/utils (not in src): the array without its repeated values, each
\* value staying at its first place
RECURSIVE uniqueArray(_)
uniqueArray(array) ==
  IF array = << >> THEN << >>
  ELSE LET init == uniqueArray(SubSeq(array, 1, Len(array) - 1))
           last == array[Len(array)]
       IN IF ArrayIncludes(init, last) THEN init ELSE Append(init, last)

\* line 71: the entity types of the nodes; a node without entity type (here
\* the empty string, falsy as undefined and null are) gives none
RECURSIVE FlatTypes(_)
FlatTypes(list) ==
  IF list = << >> THEN << >>
  ELSE FlatTypes(SubSeq(list, 1, Len(list) - 1))
         \o (IF list[Len(list)].entity_type # ""
               THEN <<list[Len(list)].entity_type>> ELSE << >>)

entityTypes(list) == uniqueArray(FlatTypes(list))

\* lines 76-81: the item made of the node d, the i-th of the list; the field
\* node stands for the identity of the object (name is left out: nothing
\* reads it before the chart does)
Item(d, i) ==
  [date |-> d.refreshed_at, score |-> d.pir_score, type |-> d.entity_type,
   node |-> i]

\* lines 88-90: is the item close to the first item of the group
Close(group, item) ==
  /\ Abs(minutesBetweenDates(group[1].date, item.date)) < CLOSE_MINUTES
  /\ Abs(group[1].score - item.score) < CLOSE_SCORE

\* variant of lines 87-97: without the break, the item is pushed to every
\* group it is close to
PushNoBreak(groups, item) ==
  IF \E g \in 1..Len(groups) : Close(groups[g], item)
    THEN [g \in 1..Len(groups) |->
            IF Close(groups[g], item) THEN Append(groups[g], item)
            ELSE groups[g]]
    ELSE Append(groups, <<item>>)

\* lines 83-97: the item is pushed to the first group it is close to, or
\* to a new group when there is none
Push(groups, item) ==
  IF Len(groups) = 0 THEN <<<<item>>>>
  ELSE IF \E g \in 1..Len(groups) : Close(groups[g], item)
    THEN LET first == CHOOSE g \in 1..Len(groups) :
                        /\ Close(groups[g], item)
                        /\ \A h \in 1..(g - 1) : ~Close(groups[h], item)
         IN [groups EXCEPT ![first] = Append(@, item)]
    ELSE Append(groups, <<item>>)

\* lines 101-115: the chart series: one series of one point for each group
Series(groups) ==
  [g \in 1..Len(groups) |->
     [data |-> << [x |-> groups[g][1].date,
                   y |-> groups[g][1].score,
                   fillColor |-> IF Len(groups[g]) > 1 THEN "#ffffff"
                                 ELSE "itemColor",
                   meta |-> [group |-> groups[g],
                             size |-> Len(groups[g])]] >>]]

\* lines 69-72: the first render: the nodes are those of the fragment and
\* the filter starts as all their entity types
FirstRender(list) ==
  /\ nodes = list
  /\ filteredEntityTypes = entityTypes(list)
  /\ groupedData = << >>
  /\ cursor = 0
  /\ series = << >>
  /\ rpc = "forEach"

\* lines 75-99: one turn of nodes.forEach
ForEachNode ==
  /\ rpc = "forEach"
  /\ cursor < Len(nodes)
  /\ cursor' = cursor + 1
  /\ LET item == Item(nodes[cursor + 1], cursor + 1)
     IN groupedData' = IF ArrayIncludes(filteredEntityTypes, item.type)
                         THEN Push(groupedData, item)
                         ELSE groupedData
  /\ UNCHANGED <<nodes, filteredEntityTypes, series, rpc>>

\* lines 101-115 and 154-181: after the last node the series is computed
\* and the component is rendered
MapGroups ==
  /\ rpc = "forEach"
  /\ cursor = Len(nodes)
  /\ series' = Series(groupedData)
  /\ rpc' = "rendered"
  /\ UNCHANGED <<nodes, filteredEntityTypes, groupedData, cursor>>

\* lines 72, 177: the legend calls setFilteredEntityTypes and the component
\* renders again
OnFilter(types) ==
  /\ rpc = "rendered"
  /\ filteredEntityTypes' = types
  /\ groupedData' = << >>
  /\ cursor' = 0
  /\ series' = << >>
  /\ rpc' = "forEach"
  /\ UNCHANGED nodes

Dates == {0, CLOSE_MINUTES}
Scores == {0, CLOSE_SCORE - 1, CLOSE_SCORE}
EntityTypes == {"Malware", "Report", ""}

Nodes ==
  [refreshed_at : Dates, pir_score : Scores, entity_type : EntityTypes]

NodeLists == SeqsUpTo(Nodes, MaxNodes)

Filters == {<< >>, <<"Malware">>, <<"Report">>, <<"Malware", "Report">>}

InitMap ==
  /\ YieldInit /\ now = 0
  /\ ValidatorInit
  /\ DriverOff
  /\ \E list \in NodeLists : FirstRender(list)

NextMap ==
  \/ ForEachNode /\ UNCHANGED <<yieldVars, validatorVars, driverVars>>
  \/ MapGroups /\ UNCHANGED <<yieldVars, validatorVars, driverVars>>
  \/ \E types \in Filters :
       OnFilter(types) /\ UNCHANGED <<yieldVars, validatorVars, driverVars>>

SpecMap == InitMap /\ [][NextMap]_vars

\* ------------------------------------------------------------------- claims

\* this step is a doYield call by task t; it read the clock as now'
Called(t) == lastCall'.seq # lastCall.seq /\ lastCall'.task = t

\* this step is the return of task t's suspended call
Resumed(t) == pc[t] = "awaiting" /\ pc'[t] = "done"

\* the latest step was a call of task t, which read the clock as now
JustCalled(t) == lastStep = "call" /\ lastCall.task = t

\* C1: a call made with the deadline set and the clock strictly past it
\* clears the deadline in the same synchronous segment in which it schedules
\* its one zero-delay continuation and suspends, without having returned; a
\* call returns true only in the step that consumes its continuation.
C1_ExpiredClearsThenYieldsOnce ==
  [][\A t \in Tasks :
       /\ (Called(t) /\ nextYield # Undefined /\ now' > nextYield)
            => /\ nextYield' = Undefined
               /\ timers' = Append(timers, t)
               /\ pc'[t] = "awaiting"
               /\ ret'[t] = "none"
               /\ yields'[t] = 1
       /\ (ret'[t] = "true" /\ ret[t] # "true")
            => /\ pc[t] = "awaiting"
               /\ timers # << >> /\ Head(timers) = t
               /\ timers' = Tail(timers)
               /\ yields'[t] = 1]_vars

\* a call has taken the expired branch, was resumed and returned true
C1_Witness ==
  \E t \in Tasks :
    pc[t] = "done" /\ ret[t] = "true" /\ branch[t] = "expired" /\ yields[t] = 1

\* C2: a call made while the deadline is unset (the first call ever made is
\* one) sets the deadline to the time it read plus 50, returns false and
\* does not suspend, whatever the time is.
C2_ArmWhenUnset ==
  [][/\ firstCall = Undefined => nextYield = Undefined
     /\ \A t \in Tasks :
          (Called(t) /\ nextYield = Undefined)
            => /\ nextYield' = now' + 50
               /\ pc'[t] = "done"
               /\ ret'[t] = "false"
               /\ yields'[t] = 0
               /\ timers' = timers]_vars

\* a call other than the first, at a time past 50, has just armed the deadline
C2_Witness ==
  \E t \in Tasks :
    /\ JustCalled(t) /\ branch[t] = "arm" /\ ret[t] = "false"
    /\ armedAt = now /\ nextYield = now + 50 /\ firstCall < now /\ now > 50

\* C3: a call made with the deadline set and the clock at or before it
\* returns false, does not suspend and leaves the deadline as it was.
C3_WithinLeavesDeadline ==
  [][\A t \in Tasks :
       (Called(t) /\ nextYield # Undefined /\ now' <= nextYield)
         => /\ nextYield' = nextYield
            /\ pc'[t] = "done"
            /\ ret'[t] = "false"
            /\ yields'[t] = 0
            /\ timers' = timers]_vars

\* a call made exactly at the deadline has returned false
C3_Witness ==
  \E t \in Tasks :
    /\ JustCalled(t) /\ branch[t] = "within" /\ ret[t] = "false"
    /\ nextYield # Undefined /\ now = nextYield

\* C4 (P1): every call made less than 50 ms after the call that armed the
\* current deadline returns false and does not suspend.
C4_NoPrematureSuspension ==
  [][\A t \in Tasks :
       (Called(t) /\ armedAt # Undefined /\ now' - armedAt < 50)
         => /\ pc'[t] = "done"
            /\ ret'[t] = "false"
            /\ yields'[t] = 0
            /\ timers' = timers]_vars

\* 49 ms after the arming, every task has called and got false, and no
\* call has suspended so far
C4_Witness ==
  /\ armedAt # Undefined /\ now - armedAt = 49
  /\ \E t \in Tasks : JustCalled(t) /\ branch[t] = "within"
  /\ \A t \in Tasks : pc[t] = "done" /\ ret[t] = "false"

\* C5 (P2): a call made with the deadline set and the clock strictly past
\* it suspends, and it is the only call that suspends on account of that
\* arming: no arming ever causes two suspensions, and only calls that
\* suspended return true.
C5_OneSuspensionPerWindow ==
  [][/\ \A t \in Tasks :
          /\ (Called(t) /\ nextYield # Undefined /\ now' > nextYield)
               => /\ pc'[t] = "awaiting"
                  /\ windowYields = 0 /\ windowYields' = 1
          /\ ret'[t] = "true" => branch'[t] = "expired"
     /\ windowYields' <= 1
     /\ nextYield' # Undefined => windowYields' = 0]_vars

\* two tasks called past the same deadline: one suspended on it, the other
\* found it cleared and armed the next window
C5_Witness ==
  \E t, u \in Tasks :
    /\ t # u
    /\ branch[t] = "expired" /\ pc[t] = "awaiting"
    /\ JustCalled(u) /\ branch[u] = "arm" /\ armedAt = now
    /\ windowYields = 0

\* C6 as stated (P3): whenever a call returns true the deadline is unset,
\* and the first call made after a return of true sets the deadline to the
\* time it read plus 50 and returns false.
C6_Original ==
  [][\A t \in Tasks :
       /\ Resumed(t) => nextYield' = Undefined
       /\ (Called(t) /\ lastStep = "resume")
            => /\ nextYield' = now' + 50
               /\ ret'[t] = "false"]_vars

\* C6 amended: the deadline is unset from the moment a call suspends; it
\* is still unset when that call returns true provided no other task ran
\* during the suspension; and the first call made after a return of true
\* that finds the deadline unset sets it to the time it read plus 50 and
\* returns false.
C6_RearmAfterTrue ==
  [][\A t \in Tasks :
       /\ (Called(t) /\ pc'[t] = "awaiting") => nextYield' = Undefined
       /\ (Resumed(t) /\ ~interleaved[t]) => nextYield' = Undefined
       /\ (Called(t) /\ lastStep = "resume" /\ nextYield = Undefined)
            => /\ nextYield' = now' + 50
               /\ pc'[t] = "done"
               /\ ret'[t] = "false"]_vars

\* a call has just returned true with no other task having run meanwhile
C6_Witness ==
  \E t \in Tasks :
    /\ lastStep = "resume" /\ ret[t] = "true" /\ pc[t] = "done"
    /\ ~interleaved[t] /\ nextYield = Undefined

\* under SpecSeq the clock moves only with the calls, so now is the time of
\* the latest call and Elapsed the time between the first and the last call
Elapsed == now - firstCall

\* C7 as stated (P5): once the calls made so far have returned, the number
\* of true results differs from floor(Elapsed / 50) by at most 1.
C7_Original ==
  (firstCall # Undefined /\ pc[1] = "done")
    => /\ trueCount >= (Elapsed \div 50) - 1
       /\ trueCount <= (Elapsed \div 50) + 1

\* C7 amended: the number of calls that suspended (returned true, or are
\* about to) is at most floor(Elapsed / 50).
C7_AtMostFloor ==
  firstCall # Undefined
    => trueCount + Cardinality({t \in Tasks : pc[t] = "awaiting"})
         <= Elapsed \div 50

\* two calls have returned true within 103 ms of the first call
C7_Witness ==
  firstCall # Undefined /\ trueCount = 2 /\ Elapsed \div 50 = 2

\* C8: in a loop whose consecutive calls are at most MaxGap apart, a call
\* that returns without suspending is made at most 50 + MaxGap after the
\* loop's start or latest resumption, so the call that suspends is made at
\* most 50 + 2 * MaxGap after it; the suspended call has ceded exactly one
\* scheduler turn.
C8_LoopRunBound ==
  /\ pc[1] # "awaiting"
       => /\ now - runStart <= 50 + MaxGap
          /\ timers = << >>
  /\ pc[1] = "awaiting"
       => /\ now - runStart <= 50 + 2 * MaxGap
          /\ timers = <<1>>
          /\ yields[1] = 1

\* after a resumption, the loop ran for the whole 50 + 2 * MaxGap before
\* it suspended again
C8_Witness ==
  /\ pc[1] = "awaiting" /\ trueCount >= 1
  /\ now - runStart = 50 + 2 * MaxGap

\* C9: a set deadline equals the time read by the call that armed it plus
\* MAX_EVENT_LOOP_PROCESSING_TIME, which is 50, so it is strictly later
\* than that time (and the arming is not in the future).
C9_DeadlineInvariant ==
  nextYield # Undefined
    => /\ armedAt # Undefined
       /\ armedAt <= now
       /\ nextYield = armedAt + MAX_EVENT_LOOP_PROCESSING_TIME
       /\ MAX_EVENT_LOOP_PROCESSING_TIME = 50
       /\ nextYield > armedAt

\* a deadline armed for a second window is in place
C9_Witness ==
  nextYield # Undefined /\ armedAt > firstCall /\ now > armedAt

\* C10: a call has ceded control iff it took the expired branch; a call
\* that has returned returned true iff it ceded control; and no step of
\* another task ran during a call that returned false.
C10_SuspensionPoints ==
  \A t \in Tasks :
    /\ yields[t] = 1 <=> branch[t] = "expired"
    /\ yields[t] \in {0, 1}
    /\ pc[t] = "awaiting" => yields[t] = 1
    /\ pc[t] = "done" => (ret[t] = "true" <=> yields[t] = 1)
    /\ pc[t] = "done" => ret[t] \in {"true", "false"}
    /\ ret[t] = "false" => ~interleaved[t]

\* one task returned true after another task ran during its suspension,
\* and that other task's call returned false
C10_Witness ==
  \E t, u \in Tasks :
    /\ t # u
    /\ ret[t] = "true" /\ interleaved[t]
    /\ ret[u] = "false" /\ branch[u] \in {"arm", "within"}

\* C11: the deadline is one variable shared by all tasks: a call that finds
\* a deadline armed by another task passed suspends and clears it, even when
\* it is the first call its task ever makes; a call that finds another
\* task's deadline not passed returns false and leaves it; and a call made
\* while another task's call is suspended, finding the deadline unset, arms
\* a new window.  At most one deadline exists, with one armer.
C11_SharedBudget ==
  [][/\ \A t \in Tasks :
          /\ (Called(t) /\ armedBy \notin {0, t} /\ now' > nextYield)
               => /\ pc'[t] = "awaiting"
                  /\ nextYield' = Undefined
                  /\ armedBy' = 0
                  /\ lastExpiry' = [task |-> t, armer |-> armedBy,
                                    fresh |-> pc[t] = "idle"]
          /\ (Called(t) /\ armedBy \notin {0, t} /\ now' <= nextYield)
               => /\ ret'[t] = "false"
                  /\ nextYield' = nextYield
                  /\ armedBy' = armedBy
          /\ (Called(t) /\ nextYield = Undefined /\ lastExpiry.task \notin {0, t})
               => /\ nextYield' = now' + 50
                  /\ armedBy' = t
                  /\ ret'[t] = "false"
     /\ armedBy' \in Tasks \cup {0}
     /\ armedBy' = 0 <=> nextYield' = Undefined]_vars

\* the first call a task ever made is suspended on a deadline another
\* task had armed, and that other task has armed the next window meanwhile
C11_Witness ==
  /\ lastExpiry.task # 0 /\ lastExpiry.fresh
  /\ pc[lastExpiry.task] = "awaiting"
  /\ lastExpiry.armer \notin {0, lastExpiry.task}
  /\ armedBy = lastExpiry.armer
  /\ nextYield # Undefined /\ armedAt >= 51

\* C12: a call never ends otherwise than by returning true or false, each
\* step of a call leaves it returned or suspended with its continuation
\* scheduled, and a suspended call eventually returns true.
C12_AlwaysReturns ==
  \A t \in Tasks :
    /\ [](pc[t] = "done" => ret[t] \in {"true", "false"})
    /\ [](pc[t] = "awaiting"
           => \E i \in DOMAIN timers : timers[i] = t)
    /\ (pc[t] = "awaiting") ~> (pc[t] = "done" /\ ret[t] = "true")

\* every task has suspended once and has been resumed
C12_Witness ==
  /\ timers = << >>
  /\ trueCount >= 1
  /\ \A t \in Tasks : pc[t] = "done" /\ branch[t] = "expired" => ret[t] = "true"
  /\ \E t \in Tasks : pc[t] = "done" /\ branch[t] = "expired"
  /\ \E t \in Tasks : pc[t] = "done" /\ ret[t] = "false"

\* C17: nextYield changes only in a step of a doYield call; it goes from
\* unset to set only in the arming branch, to the time read plus 50, and
\* from set to unset only in the expired branch, past the deadline; a set
\* deadline is never replaced by another set value; steps that are not
\* calls (time passing, resumptions) leave it as it is.
C17_DeadlineLifecycle ==
  [][/\ nextYield' # nextYield
          => \E t \in Tasks :
               /\ Called(t)
               /\ \/ /\ nextYield = Undefined
                     /\ branch'[t] = "arm"
                     /\ nextYield' = now' + 50
                  \/ /\ nextYield # Undefined
                     /\ now' > nextYield
                     /\ branch'[t] = "expired"
                     /\ nextYield' = Undefined
     /\ (nextYield # Undefined /\ nextYield' # Undefined)
          => nextYield' = nextYield
     /\ (\A t \in Tasks : ~Called(t)) => nextYield' = nextYield
     /\ \A t \in Tasks :
          (Called(t) /\ branch'[t] = "within") => nextYield' = nextYield]_vars

\* a deadline armed before the latest resumption has outlived it and a
\* later call that found it not passed
C17_Witness ==
  \E t \in Tasks :
    /\ JustCalled(t) /\ branch[t] = "within"
    /\ trueCount >= 1 /\ armedAt < now /\ nextYield # Undefined
    /\ armedBy # t

\* C18: the step in which a suspended call returns true leaves the deadline
\* as it is: unset if nothing armed it meanwhile, and otherwise the value
\* another task armed during the suspension.
C18_ResumeKeepsDeadline ==
  [][\A t \in Tasks :
       Resumed(t) => /\ nextYield' = nextYield
                     /\ armedAt' = armedAt
                     /\ armedBy' = armedBy
                     /\ ret'[t] = "true"]_vars

\* a call has just returned true while the deadline another task armed
\* during its suspension is in place
C18_Witness ==
  \E t \in Tasks :
    /\ lastStep = "resume" /\ ret[t] = "true" /\ interleaved[t]
    /\ branch[t] = "expired"
    /\ armedBy \notin {0, t} /\ nextYield = armedAt + 50

\* the operations validateRoute awaits
Stages ==
  {"goto", "domReady", "loader", "elements", "errorStates", "structure",
   "auth", "dataLoading", "custom", "shot"}

\* C13 as stated: a validateRoute call never ends by rejecting: every error
\* raised by the navigation, the status check, a page check or the custom
\* validation is caught and leads to the screenshot, and whether or not the
\* screenshot succeeds the call then resolves to a result of this call for
\* its config with success = false and the error set; a call in which
\* nothing failed resolves to a result with success = true and no error.
\* (A custom validation that rejects with a value String() cannot convert
\* makes the catch block throw, and the call rejects.)
C13_AlwaysResolves ==
  [][/\ vpc' \in Stages \cup {"idle"}
     /\ (vpc # "shot" /\ vpc' = "shot")
          => caught' # NoError /\ caught'.message # "absent"
     /\ Settles
          => /\ result'.call = calls
             /\ result'.route = currentRoute
             /\ IF vpc = "shot"
                  THEN /\ result'.success = FALSE
                       /\ result'.error = caught
                       /\ result'.error # NoError
                  ELSE /\ result'.success = TRUE
                       /\ result'.error = NoError
                       /\ caught = NoError]_vars

\* the checks a successful validation of config has passed
RequiredChecks(config) ==
  {"navigation", "status", "ready", "errorStates", "structure",
   "dataLoading", "jsErrors", "networkErrors"}
    \cup (IF config.requiresAuth # "false" THEN {"auth"} ELSE {})
    \cup (IF config.customValidation = "present"
            THEN {"customValidation"} ELSE {})

\* C19: a call resolves to success = true only in a step where the
\* navigation response had a status below 400, every built-in check that
\* applies to the config and the custom validation, if given, have passed,
\* no JS error in the array lacks an ignorable pattern and no network error
\* in the array has a status of 500 or more; the result holds the arrays as
\* they are in that same step.
C19_SuccessOnlyIfClean ==
  [][(Settles /\ result'.success)
       => /\ navStatus > 0 /\ navStatus < 400
          /\ RequiredChecks(currentRoute)
               = {checked'[i] : i \in DOMAIN checked'}
          /\ \A i \in DOMAIN jsErrors :
               jsErrors[i].message \cap IgnorableJsPatterns # {}
          /\ \A i \in DOMAIN networkErrors : networkErrors[i].status < 500
          /\ result'.networkErrors.items = networkErrors
          /\ result'.jsErrors.items = jsErrors
          /\ networkErrors' = networkErrors
          /\ jsErrors' = jsErrors]_vars

\* a validation with a custom validation succeeded although a 400 response
\* and an ignorable JS error were recorded during it
C19_Witness ==
  /\ result.call = 1 /\ result.success
  /\ result.route.customValidation = "present"
  /\ result.networkErrors.items = <<[status |-> 400]>>
  /\ result.jsErrors.items
       = <<[message |-> {"Script error"}, source |-> "page"]>>

\* what a holder of the result reads in it
Contents(r) ==
  [call |-> r.call, success |-> r.success, route |-> r.route,
   error |-> r.error, networkErrors |-> r.networkErrors.items,
   jsErrors |-> r.jsErrors.items, screenshot |-> r.screenshot]

\* C20: every call starts by emptying both arrays; the result of a call
\* holds exactly the errors the handlers recorded between the start of the
\* call and the step that builds the result, in the order recorded; and in
\* every step that does not end a call (page events, the start and the
\* steps of a later call) the contents of the result returned stay as they
\* are.
C20_ErrorWindow ==
  [][/\ (vpc = "idle" /\ vpc' # "idle")
          => networkErrors' = << >> /\ jsErrors' = << >>
     /\ Settles
          => /\ result'.networkErrors.items = heardNetwork
             /\ result'.jsErrors.items = heardJs
     /\ ~Settles => Contents(result') = Contents(result)]_vars

\* the second call in a row has returned one network error and no JS
\* error, and an error response recorded after the return is in the
\* validator's array and not in the result
C20_Witness ==
  /\ vpc = "idle" /\ calls = 2 /\ result.call = 2
  /\ Len(result.networkErrors.items) = 1 /\ result.jsErrors.items = << >>
  /\ Len(networkErrors) = 2 /\ jsErrors = << >>
  /\ heardNetwork = networkErrors

\* the routes of list that have no skipReason (none given, or an empty one)
Unskipped(list) ==
  SelectSeq(list, LAMBDA route : route.skipReason \in {"absent", ""})

\* C14: the test validates the routes of getAllRoutes() that have no
\* skipReason in order, each once; a route is validated only if every
\* earlier one returned success = true; an unsuccessful result is the last
\* one and fails the test; the test has passed only if every such route was
\* validated with success = true and there is at least one; once the test
\* has failed no validateRoute call is started.
C14_ZeroTolerance ==
  [][/\ \A i \in DOMAIN visited' :
          /\ visited'[i].index = i
          /\ i <= Len(Unskipped(routes'))
          /\ ~visited'[i].success => i = Len(visited') /\ hpc' = "failed"
     /\ calls' = Len(visited') + (IF hpc' = "validating" THEN 1 ELSE 0)
     /\ hpc' = "validating"
          => /\ currentRoute' = Unskipped(routes')[calls']
             /\ \A i \in DOMAIN visited' : visited'[i].success
     /\ hpc' = "passed"
          => /\ Len(Unskipped(routes')) > 0
             /\ Len(visited') = Len(Unskipped(routes'))
             /\ \A i \in DOMAIN visited' : visited'[i].success
     /\ hpc = "failed" => hpc' = "failed" /\ calls' = calls]_vars

\* with two routes to test, the first was unsuccessful: the test has
\* failed and the second route was not validated
C14_Witness ==
  /\ hpc = "failed" /\ vpc = "idle"
  /\ Len(Unskipped(routes)) = 2
  /\ Len(visited) = 1 /\ ~visited[1].success /\ calls = 1

\* C16 as stated: no route that getAllRoutes() returns is a member of
\* ADMIN_ONLY_ROUTES (a Settings route, an Audit route, or a Data route
\* whose path includes 'import' or 'processing').
C16_NoAdminRoute ==
  routes = getAllRoutes
    => \A i \in DOMAIN routes :
         \A j \in DOMAIN ADMIN_ONLY_ROUTES : routes[i] # ADMIN_ONLY_ROUTES[j]

\* the indices in list of the configs that have no skipReason
UnskippedIndices(list) ==
  {i \in DOMAIN list : list[i].skipReason \in {"absent", ""}}

\* C15: validateRoutes validates configs one at a time in the order of the
\* list and never one that has a (non-empty) skipReason; a validation is
\* started only when every earlier one has ended and its result has been
\* pushed; when validateRoutes returns, the results are those of the
\* configs without skipReason, one each, in the order of the list.
C15_InSequence ==
  [][/\ \A k \in DOMAIN visited' :
          /\ visited'[k].index \in UnskippedIndices(routes')
          /\ Cardinality({i \in UnskippedIndices(routes') :
                            i <= visited'[k].index}) = k
          /\ results'[k].route = routes'[visited'[k].index]
          /\ results'[k].call = k
     /\ Len(results') = Len(visited')
     /\ (vpc = "idle" /\ vpc' # "idle")
          => /\ calls' = Len(results') + 1
             /\ position' \in UnskippedIndices(routes')
             /\ currentRoute' = routes'[position']
             /\ \A k \in DOMAIN visited' : visited'[k].index < position'
     /\ vpc' # "idle" => calls' = Len(results') + 1
     /\ hpc' = "returned"
          => Len(results') = Cardinality(UnskippedIndices(routes'))]_vars

\* validateRoutes has returned two results for a list of two configs
\* without skipReason, the first validation having failed
C15_Witness ==
  /\ hpc = "returned" /\ Len(routes) = 2 /\ Len(results) = 2
  /\ ~results[1].success /\ results[2].success
  /\ results[2].route.skipReason = ""

\* the checks of a validation of config, in the order stated
CheckOrder(config) ==
  <<"navigation", "status", "ready", "errorStates", "structure">>
    \o (IF config.requiresAuth = "false" THEN << >> ELSE <<"auth">>)
    \o <<"dataLoading">>
    \o (IF config.customValidation = "present"
          THEN <<"customValidation">> ELSE << >>)
    \o <<"jsErrors", "networkErrors">>

\* the sequence p is the start of the sequence q
IsPrefix(p, q) == Len(p) <= Len(q) /\ SubSeq(q, 1, Len(p)) = p

\* C21: the checks that have passed are always the first ones of the
\* order navigation, response status, page readiness, error states, basic
\* structure, authentication (left out only when requiresAuth is false),
\* data loading, custom validation (when given), JS errors, network errors;
\* a failure (the call is about to return an unsuccessful result, or has
\* rejected) comes after a proper part of them and no check runs after it;
\* the custom validation is awaited only when all the checks before it have
\* passed; a success comes after all of them.
C21_CheckOrder ==
  [][/\ IsPrefix(checked', CheckOrder(currentRoute'))
     /\ vpc' \in {"shot", "rejected"}
          => Len(checked') < Len(CheckOrder(currentRoute'))
     /\ vpc \in {"shot", "rejected"} => checked' = checked
     /\ vpc' = "custom"
          => /\ currentRoute'.customValidation = "present"
             /\ checked' \o <<"customValidation", "jsErrors", "networkErrors">>
                  = CheckOrder(currentRoute')
     /\ (Settles /\ result'.success)
          => checked' = CheckOrder(currentRoute')]_vars

\* a route with requiresAuth true and a custom validation failed its
\* authentication check: the validation ended without the data-loading
\* check and without the custom validation
C21_Witness ==
  /\ vpc = "idle" /\ result.call = 1 /\ ~result.success
  /\ currentRoute.requiresAuth = "true"
  /\ currentRoute.customValidation = "present"
  /\ checked = <<"navigation", "status", "ready", "errorStates", "structure">>
  /\ result.error.message
       = "Navigation not found - authentication may have failed"

\* C22: the wait for the loader and the waits for the expected elements
\* never fail a validation: whether the loader hid or not, the validation
\* goes on to the expected elements or to the error-state check, and
\* whether the elements appeared or not, it goes on to the error-state
\* check, the readiness having passed; the expected elements are waited for
\* only when expectedElements is given and waitForElements is not false.
C22_BestEffortReadiness ==
  [][/\ (vpc = "loader" /\ vpc' # "loader")
          => /\ vpc' \in {"elements", "errorStates"}
             /\ caught' = NoError
             /\ vpc' = "elements" <=> /\ WaitsForElements(currentRoute)
                                      /\ currentRoute.expectedElements > 0
     /\ (vpc = "elements" /\ vpc' # "elements")
          => vpc' = "errorStates" /\ caught' = NoError
     /\ vpc' = "errorStates" => checked'[Len(checked')] = "ready"
     /\ (\/ vpc' = "elements"
         \/ \E i \in 1..Len(swallowed') : swallowed'[i] = "element")
          => /\ currentRoute'.expectedElements # Undefined
             /\ currentRoute'.waitForElements # "false"]_vars

\* a validation succeeded although its loader never hid and its expected
\* element never appeared
C22_Witness ==
  /\ vpc = "idle" /\ result.call = 1 /\ result.success
  /\ swallowed = <<"loader", "element">>
  /\ currentRoute.expectedElements = 1

\* the places <<group, rank>> of the groups where the item of node i lies
Places(i) ==
  {<<g, k>> \in (1..Len(groupedData)) \X (1..MaxNodes + 1) :
     k <= Len(groupedData[g]) /\ groupedData[g][k].node = i}

\* C23: the groups are a partition of the nodes whose entity type is among
\* the filtered entity types: every such node that forEach has gone
\* through lies at exactly one place of exactly one group, a node of
\* another type lies in no group, no group is empty, and once the
\* component is rendered the series has one entry per group, of exactly
\* one point, whose meta.size is the number of nodes of that group.
C23_GroupsPartition ==
  /\ \A i \in 1..cursor :
       Cardinality(Places(i))
         = IF ArrayIncludes(filteredEntityTypes, nodes[i].entity_type)
             THEN 1 ELSE 0
  /\ \A i \in (cursor + 1)..Len(nodes) : Places(i) = {}
  /\ \A g \in 1..Len(groupedData) : Len(groupedData[g]) > 0
  /\ rpc = "rendered"
       => /\ cursor = Len(nodes)
          /\ Len(series) = Len(groupedData)
          /\ \A g \in 1..Len(series) :
               /\ Len(series[g].data) = 1
               /\ series[g].data[1].meta.size = Len(groupedData[g])
               /\ series[g].data[1].meta.group = groupedData[g]

\* three nodes are rendered with the filter on one type: the two nodes of
\* that type share the only group, the node of the other type is in none,
\* and the only point of the series has size 2
C23_Witness ==
  /\ rpc = "rendered"
  /\ Len(nodes) = 3
  /\ filteredEntityTypes = <<"Malware">>
  /\ \E i \in 1..3 : nodes[i].entity_type = "Report"
  /\ Len(groupedData) = 1
  /\ Len(groupedData[1]) = 2
  /\ series[1].data[1].meta.size = 2

====
